---- MODULE Spec2Model ----
(***************************************************************************)
(* Model of the universal-deploy pipeline (src/src/main.rs, src/src/git.rs,*)
(* src/src/config.rs): configuration loading, target-path resolution, the  *)
(* checkout/update state machine, validated resource copying, tool         *)
(* execution and cleanup, over an explicit filesystem with symlinks.       *)
(*                                                                         *)
(* A path is a sequence of components from the filesystem root; ".." is a  *)
(* component.  A configuration string that is an absolute path starts with *)
(* the component "/".                                                      *)
(***************************************************************************)
EXTENDS Integers, Sequences, FiniteSets, TLC

\* ------------------------------------------------------------------ bounds
\* Number of invocations of the program by the operator, one after another.
MaxRuns == 2
\* Symbolic links followed while resolving one path before the OS gives up.
MaxLinkHops == 2

\* ------------------------------------------------------ filesystem layout
Root == << >>
Home == <<"home">>
\* std::env::current_dir() of the process.
Cwd == <<"home", "cwd">>
\* Parent directory of the configuration file given on the command line.
ConfigDir == <<"home", "cfg">>
ResourcesDir == ConfigDir \o <<"resources">>

\* Uuid::new_v4(): a fresh directory name for each invocation.
UuidNames == <<"u1", "u2", "u3", "u4">>

DirNode == [k |-> "dir", c |-> "", t |-> << >>]
FileNode(content) == [k |-> "file", c |-> content, t |-> << >>]
LinkNode(to) == [k |-> "link", c |-> "", t |-> to]

\* The tree of the repository's branch, as `git clone` lays it out in the
\* working directory (paths relative to the working directory).
RepoTree ==
  (<<"README">> :> FileNode("R")) @@
  (<<"dir">> :> DirNode) @@
  (<<"dlnk">> :> LinkNode(<<"home", "escape.txt">>)) @@
  (<<"elnk">> :> LinkNode(<<"home", "cfg", "secret.txt">>))

GitDir(dir) == dir \o <<".git">>

\* Files outside both sandboxes and the resources directory.
BaseFs ==
  (Root :> DirNode) @@
  (Home :> DirNode) @@
  (ConfigDir :> DirNode) @@
  (ResourcesDir :> DirNode) @@
  ((ResourcesDir \o <<"a.txt">>) :> FileNode("A")) @@
  ((ConfigDir \o <<"secret.txt">>) :> FileNode("S")) @@
  (Cwd :> DirNode)

\* A checkout of the repository at dir: the marker and the tracked tree.
CheckoutAt(dir) ==
  (GitDir(dir) :> DirNode) @@
  [p \in {dir \o r : r \in DOMAIN RepoTree} |->
     RepoTree[SubSeq(p, Len(dir) + 1, Len(p))]]

\* ------------------------------------------------------- path operations
IsPrefix(a, b) == Len(a) <= Len(b) /\ SubSeq(b, 1, Len(a)) = a

\* Path::starts_with on canonical paths: whole components.
StartsWith(path, base) == IsPrefix(base, path)

Front(p) == SubSeq(p, 1, Len(p) - 1)
Last(p) == p[Len(p)]

\* Path::join: an absolute argument replaces the base.
Join(base, rel) ==
  IF rel # << >> /\ rel[1] = "/" THEN Tail(rel) ELSE base \o rel

\* Path::parent: drops the final component, lexically.
HasParent(p) == p # << >>
Parent(p) == Front(p)

Resolved(p) == [ok |-> TRUE, p |-> p]
Unresolved == [ok |-> FALSE, p |-> << >>]

\* Path::canonicalize (realpath): every component must exist, symbolic
\* links are followed, ".." steps to the physical parent.
RECURSIVE Canon(_, _, _, _)
Canon(f, cur, rest, hops) ==
  IF rest = << >> THEN Resolved(cur)
  ELSE LET c == Head(rest)
           next == cur \o <<c>>
       IN IF c = ".."
          THEN Canon(f, IF cur = << >> THEN cur ELSE Front(cur), Tail(rest), hops)
          ELSE IF next \notin DOMAIN f THEN Unresolved
          ELSE IF f[next].k = "link"
               THEN IF hops = 0 THEN Unresolved
                    ELSE Canon(f, << >>, f[next].t \o Tail(rest), hops - 1)
          ELSE IF f[next].k = "file" /\ Tail(rest) # << >> THEN Unresolved
          ELSE Canon(f, next, Tail(rest), hops)

Canonicalize(f, p) == Canon(f, << >>, p, MaxLinkHops)

\* Path::exists and Path::is_dir follow symbolic links.
Exists(f, p) == Canonicalize(f, p).ok
IsDir(f, p) == Canonicalize(f, p).ok /\ f[Canonicalize(f, p).p].k = "dir"

\* The file that open(path, O_WRONLY|O_CREAT|O_TRUNC) writes: the parent
\* must resolve to a directory; a symbolic link in the last component is
\* followed, dangling or not; a missing last component is created.
RECURSIVE WriteTarget(_, _, _)
WriteTarget(f, p, hops) ==
  IF p = << >> \/ Last(p) = ".." THEN Unresolved
  ELSE LET par == Canonicalize(f, Front(p))
           q == par.p \o <<Last(p)>>
       IN IF ~par.ok \/ f[par.p].k # "dir" THEN Unresolved
          ELSE IF q \notin DOMAIN f THEN Resolved(q)
          ELSE IF f[q].k = "link"
               THEN IF hops = 0 THEN Unresolved
                    ELSE WriteTarget(f, f[q].t, hops - 1)
          ELSE IF f[q].k = "file" THEN Resolved(q)
          ELSE Unresolved

\* mkdir(2) of one directory: "ok", "exists" or "notfound".
MkdirStatus(f, p) ==
  IF p = << >> \/ Last(p) = ".." THEN "exists"
  ELSE LET par == Canonicalize(f, Front(p))
       IN IF ~par.ok \/ f[par.p].k # "dir" THEN "notfound"
          ELSE IF (par.p \o <<Last(p)>>) \in DOMAIN f THEN "exists"
          ELSE "ok"

MkdirPath(f, p) == Canonicalize(f, Front(p)).p \o <<Last(p)>>

\* fs::create_dir_all: creates the directory and every missing ancestor.
\* Result: whether it succeeded, the new filesystem, the directories made.
RECURSIVE CreateDirAll(_, _)
CreateDirAll(f, p) ==
  LET st == MkdirStatus(f, p)
  IN IF st = "ok"
     THEN [ok |-> TRUE, fs |-> (MkdirPath(f, p) :> DirNode) @@ f,
           made |-> {MkdirPath(f, p)}]
     ELSE IF st = "exists"
     THEN [ok |-> IsDir(f, p), fs |-> f, made |-> {}]
     ELSE IF p = << >> THEN [ok |-> FALSE, fs |-> f, made |-> {}]
     ELSE LET up == CreateDirAll(f, Front(p))
          IN IF ~up.ok THEN up
             ELSE IF MkdirStatus(up.fs, p) = "ok"
             THEN [ok |-> TRUE,
                   fs |-> (MkdirPath(up.fs, p) :> DirNode) @@ up.fs,
                   made |-> up.made \cup {MkdirPath(up.fs, p)}]
             ELSE [ok |-> IsDir(up.fs, p), fs |-> up.fs, made |-> up.made]

\* fs::remove_dir_all: the directory and everything below it; symbolic
\* links inside are removed, not followed.
RemoveTree(f, dir) == [p \in {q \in DOMAIN f : ~IsPrefix(dir, q)} |-> f[p]]


\* ---------------------------------------------------------- configuration
\* Option<String> of Resource.copy_path and of ToolConfig::command.
None == [some |-> FALSE, v |-> << >>]
Some(x) == [some |-> TRUE, v |-> x]

Resource(file, copy) == [file |-> file, copy_path |-> copy]

R_plain == Resource(<<"a.txt">>, None)
R_readme == Resource(<<"a.txt">>, Some(<<"README">>))
R_indir == Resource(<<"a.txt">>, Some(<<"dir", "b.txt">>))
R_sub == Resource(<<"a.txt">>, Some(<<"sub", "b.txt">>))
R_escape == Resource(<<"a.txt">>, Some(<<"..", "..", "escape.txt">>))
R_escape_nodir == Resource(<<"a.txt">>, Some(<<"..", "nodir", "escape.txt">>))
R_abs == Resource(<<"a.txt">>, Some(<<"/", "home", "escape.txt">>))
R_dlnk == Resource(<<"a.txt">>, Some(<<"dlnk">>))
R_elnk == Resource(<<"a.txt">>, Some(<<"elnk">>))
R_src_escape == Resource(<<"..", "secret.txt">>, Some(<<"b.txt">>))
R_src_nodir == Resource(<<"..", "nodir", "x.txt">>, Some(<<"b.txt">>))
R_src_missing == Resource(<<"missing.txt">>, None)

ResourceSpecs ==
  {R_plain, R_readme, R_indir, R_sub, R_escape, R_escape_nodir, R_abs,
   R_dlnk, R_elnk, R_src_escape, R_src_nodir, R_src_missing}

\* The resource lists of the configurations explored.
ResourceLists ==
  {<< >>} \cup {<<r>> : r \in ResourceSpecs}
          \cup {<<a, b>> : a \in {R_plain, R_escape},
                           b \in {R_indir, R_escape, R_src_missing}}

\* ToolConfig: Simple(String) | Full { command, arguments }.
SimpleTool(cmd) == [variant |-> "Simple", command |-> cmd, arguments |-> << >>]
FullTool(cmd, args) == [variant |-> "Full", command |-> cmd, arguments |-> args]

ToolConfigs ==
  {SimpleTool(""), SimpleTool("make"),
   FullTool("", <<"deploy">>), FullTool("make", <<"deploy">>)}

\* serde defaults of ReleaseConfig.
DefaultConfig ==
  [clean |-> FALSE, repository |-> "", branch |-> "", merge |-> FALSE,
   resources |-> << >>, tool |-> SimpleTool("")]

ValidConfigs ==
  [clean : BOOLEAN, repository : {"https://host/repo.git"}, branch : {"main"},
   merge : BOOLEAN, resources : ResourceLists, tool : ToolConfigs]

InvalidConfigs ==
  {[DefaultConfig EXCEPT !.branch = "main"],
   [DefaultConfig EXCEPT !.repository = "https://host/repo.git"]}

\* What the configuration file holds: nothing, text that is not a
\* configuration, or a configuration.
ConfigFiles ==
  {[state |-> "missing", cfg |-> DefaultConfig],
   [state |-> "garbled", cfg |-> DefaultConfig]} \cup
  {[state |-> "ok", cfg |-> c] : c \in ValidConfigs \cup InvalidConfigs}

\* ToolConfig::command
ToolCommand(tool) ==
  IF tool.command = "" THEN None ELSE Some(tool.command)

\* ToolConfig::arguments
ToolArguments(tool) ==
  IF tool.variant = "Full" THEN tool.arguments ELSE << >>

\* Display for ToolConfig: the command, then the arguments, as words.
DisplayTool(tool) ==
  IF tool.variant = "Simple" THEN <<tool.command>>
  ELSE <<tool.command>> \o tool.arguments

\* Config::validate: the error it returns, "" for none.
Validate(cfg) ==
  IF cfg.repository = "" THEN "Repository URL cannot be empty"
  ELSE IF cfg.branch = "" THEN "Branch name cannot be empty"
  ELSE ""

\* ------------------------------------------------------------------ errors
NoError == [kind |-> "none", detail |-> << >>, code |-> 0]
Err(kind, detail, code) == [kind |-> kind, detail |-> detail, code |-> code]

\* ------------------------------------------------------------ subprocesses
\* How a subprocess ends: it cannot be started, it is killed by a signal
\* (no exit code), or it exits with a code.
ExitCodes == {0, 2}
Outcomes ==
  {[started |-> FALSE, coded |-> FALSE, code |-> 0],
   [started |-> TRUE, coded |-> FALSE, code |-> 0]} \cup
  {[started |-> TRUE, coded |-> TRUE, code |-> c] : c \in ExitCodes}

\* Mutant: the exit status of a git subprocess is not looked at.
SuccessUnchecked(o) == o.started

\* ExitStatus::success
Success(o) == o.started /\ o.coded /\ o.code = 0
\* status.code().unwrap_or(1)
CodeOr1(o) == IF o.coded THEN o.code ELSE 1

\* One entry of the log of subprocesses: what was run, where, how it ended.
Proc(prog, op, args, dir, o) ==
  [prog |-> prog, op |-> op, args |-> args, dir |-> dir, o |-> o]


\* ------------------------------------------------------- pipeline decisions
\* Mutant: the current directory is the working directory in clean mode too.
DetermineTargetPathInPlace(clean, r) == Cwd

\* determine_target_path: a fresh uuid-named child of the current
\* directory in clean mode, the current directory itself otherwise.
DetermineTargetPath(clean, r) ==
  IF clean THEN Cwd \o <<UuidNames[r]>> ELSE Cwd

\* target_path.join(".git").exists()
MarkerPresent(f, dir) == Exists(f, GitDir(dir))

\* Mutant: a current directory without a marker is used as it is.
CheckoutActionNeverClonesInPlace(clean, marker, merge) ==
  IF clean THEN "clone"
  ELSE IF merge /\ marker THEN "status" ELSE "copy"

\* Mutant: an existing checkout is updated whatever `merge` says.
CheckoutActionAlwaysUpdates(clean, marker, merge) ==
  IF clean THEN "clone"
  ELSE IF marker THEN "status"
  ELSE "clone"

\* The branch of checkout_repository on (clean, marker, merge): the stage
\* it enters next.
CheckoutAction(clean, marker, merge) ==
  IF clean THEN "clone"
  ELSE IF marker THEN (IF merge THEN "status" ELSE "copy")
  ELSE "clone"

\* Mutant: the update after a clone is run in non-clean mode too.
UpdateAfterCloneAnyMode(clean, merge) == merge

\* `if clean && merge { update_repository(..) }` after the branch above.
UpdateAfterClone(clean, merge) == clean /\ merge

\* `git status --porcelain` prints something: an untracked or modified
\* file below dir (outside dir/.git), or a tracked file that is gone.
Dirty(f, dir) ==
  \/ \E p \in DOMAIN f :
       /\ IsPrefix(dir, p) /\ p # dir
       /\ ~IsPrefix(GitDir(dir), p)
       /\ f[p].k # "dir"
       /\ LET rel == SubSeq(p, Len(dir) + 1, Len(p))
          IN rel \notin DOMAIN RepoTree \/ RepoTree[rel] # f[p]
  \/ \E rel \in DOMAIN RepoTree :
       RepoTree[rel].k # "dir" /\ (dir \o rel) \notin DOMAIN f

\* Mutant: the output of the status query is not looked at.
StatusNeverAborts(dirty) == FALSE

\* Whether `git status --porcelain` wrote anything to its standard output:
\* it lists the uncommitted changes when it ran to the end, and prints
\* nothing there (its complaint goes to standard error) when it failed.
StatusOutput(o, dirty) == o.started /\ o.coded /\ o.code = 0 /\ dirty

\* `!status_output.stdout.is_empty()` aborts the update.
StatusAborts(dirty) == dirty

\* git clone refuses a destination that exists and is not an empty
\* directory.
CanCloneInto(f, dir) ==
  IF dir \notin DOMAIN f THEN TRUE
  ELSE f[dir].k = "dir" /\ ~\E p \in DOMAIN f : IsPrefix(dir, p) /\ p # dir

\* validate_path: "ok", "io" (an io::Error of canonicalize) or "traversal".
ValidatePath(f, path, base) ==
  LET whole == Canonicalize(f, path)
      canonical_path ==
        IF whole.ok THEN whole
        ELSE IF HasParent(path) THEN Canonicalize(f, Parent(path))
        ELSE Unresolved
      canonical_base == Canonicalize(f, base)
  IN IF ~canonical_path.ok THEN "io"
     ELSE IF ~canonical_base.ok THEN "io"
     ELSE IF ~StartsWith(canonical_path.p, canonical_base.p) THEN "traversal"
     ELSE "ok"

SourcePath(config_dir, resource) ==
  Join(Join(config_dir, <<"resources">>), resource.file)

DestPath(target_path, resource) ==
  Join(target_path,
       IF resource.copy_path.some THEN resource.copy_path.v ELSE resource.file)

CopyResult(status, path, f, reads, writes) ==
  [status |-> status, path |-> path, fs |-> f, reads |-> reads, writes |-> writes]

\* fs::copy: opens the source, which must be a regular file, then opens
\* the destination for writing and copies the bytes.
FsCopy(f, source_path, dest_path, made) ==
  LET src == Canonicalize(f, source_path)
      dst == WriteTarget(f, dest_path, MaxLinkHops)
  IN IF ~src.ok \/ f[src.p].k # "file"
     THEN CopyResult("io", source_path, f, {}, made)
     ELSE IF ~dst.ok
     THEN CopyResult("io", dest_path, f, {src.p}, made)
     ELSE CopyResult("ok", dest_path, (dst.p :> FileNode(f[src.p].c)) @@ f,
                     {src.p}, made \cup {dst.p})

\* copy_single_resource: both paths are validated, the destination's
\* parent directories are created, the file is copied.
CopySingleResource(f, config_dir, target_path, resource) ==
  LET source_path == SourcePath(config_dir, resource)
      dest_path == DestPath(target_path, resource)
      vs == ValidatePath(f, source_path, Join(config_dir, <<"resources">>))
      vd == ValidatePath(f, dest_path, target_path)
  IN IF vs # "ok" THEN CopyResult(vs, source_path, f, {}, {})
     ELSE IF vd # "ok" THEN CopyResult(vd, dest_path, f, {}, {})
     ELSE IF HasParent(dest_path)
     THEN LET dirs == CreateDirAll(f, Parent(dest_path))
          IN IF ~dirs.ok THEN CopyResult("io", dest_path, dirs.fs, {}, dirs.made)
             ELSE FsCopy(dirs.fs, source_path, dest_path, dirs.made)
     ELSE FsCopy(f, source_path, dest_path, {})

\* Mutant: the clean setting is not looked at.
CleanupDeletesIgnoringClean(clean, keep_checkout) == ~keep_checkout

\* Mutant: --keep-checkout is not looked at.
CleanupDeletesIgnoringKeep(clean, keep_checkout) == clean

\* `if config.release.clean && !keep_checkout` guards remove_dir_all.
CleanupDeletes(clean, keep_checkout) == clean /\ ~keep_checkout

\* Mutant: a failed removal makes the invocation fail.
FinalResultOkUnlessRemoveFailed(tool_ok, remove_ok) == tool_ok /\ remove_ok

\* run_deployment returns tool_result after the cleanup, whatever
\* remove_dir_all returned.
FinalResultOk(tool_ok, remove_ok) == tool_ok

\* Mutant: main returns normally whatever run_deployment returned.
ProcessExitCodeAlwaysZero(ok) == 0

\* main: exit(1) on Err, a normal return (0) on Ok.
ProcessExitCode(ok) == IF ok THEN 0 ELSE 1


\* -------------------------------------------------------------------- state
VARIABLES
  fs,              \* the filesystem: existing path -> node
  history,         \* repository directory -> number of commits on its branch
  configFile,      \* what the configuration file holds
  keep_checkout,   \* the --keep-checkout flag
  run,             \* which invocation this is
  pc,              \* the stage the invocation is at
  config,          \* Config::load's result
  target_path,     \* determine_target_path's result (repo_path in main)
  idx,             \* position of copy_resources in the resource list
  tool_result,     \* tool_result of run_deployment
  error,           \* the Err that run_deployment returned
  exit_code,       \* the exit code of the process, -1 while it runs
  procs,           \* the subprocesses this invocation tried to start
  reads,           \* files this invocation opened for reading
  writes,          \* files and directories this invocation created or wrote
  cleanup,         \* what the cleanup step did
  endedAt,         \* the stage at which the invocation ended
  markerAtStart,   \* whether Cwd held a .git entry when the invocation began
  historyAtStart,  \* history when the invocation began
  prevExit         \* exit code of the invocation before this one, -1 if none

vars ==
  <<fs, history, configFile, keep_checkout, run, pc, config, target_path, idx,
    tool_result, error, exit_code, procs, reads, writes, cleanup, endedAt,
    markerAtStart, historyAtStart, prevExit>>

Pending == [kind |-> "pending", detail |-> << >>, code |-> 0]

NoRepos == [p \in {} |-> 0]

\* The current directory when the program is first invoked: empty, a
\* checkout of the repository, or a checkout with an uncommitted file.
InitialFilesystems ==
  {BaseFs,
   CheckoutAt(Cwd) @@ BaseFs,
   ((Cwd \o <<"local.txt">>) :> FileNode("L")) @@ CheckoutAt(Cwd) @@ BaseFs}

Init ==
  /\ fs \in InitialFilesystems
  /\ history = IF MarkerPresent(fs, Cwd) THEN (Cwd :> 1) @@ NoRepos ELSE NoRepos
  /\ configFile \in ConfigFiles
  /\ keep_checkout \in BOOLEAN
  /\ run = 1
  /\ pc = "load"
  /\ config = DefaultConfig
  /\ target_path = Root
  /\ idx = 1
  /\ tool_result = Pending
  /\ error = NoError
  /\ exit_code = -1
  /\ procs = << >>
  /\ reads = {}
  /\ writes = {}
  /\ cleanup = "none"
  /\ endedAt = ""
  /\ markerAtStart = MarkerPresent(fs, Cwd)
  /\ historyAtStart = history
  /\ prevExit = -1

\* run_deployment returns Err(e) at stage `at`; main prints it and exits.
Abort(e, at) ==
  /\ pc' = "done"
  /\ error' = e
  /\ exit_code' = ProcessExitCode(FALSE)
  /\ endedAt' = at

Continue(next) ==
  /\ pc' = next
  /\ UNCHANGED <<error, exit_code, endedAt>>

\* Config::load
LoadConfig ==
  /\ pc = "load"
  /\ IF configFile.state = "missing"
     THEN Abort(Err("ConfigMissing", << >>, 0), "load") /\ UNCHANGED config
     ELSE IF configFile.state = "garbled"
     THEN Abort(Err("ConfigParse", << >>, 0), "load") /\ UNCHANGED config
     ELSE Continue("validate") /\ config' = configFile.cfg
  /\ UNCHANGED <<fs, history, configFile, keep_checkout, run, target_path, idx,
                 tool_result, procs, reads, writes, cleanup, markerAtStart,
                 historyAtStart, prevExit>>

\* config.validate()
ValidateConfig ==
  /\ pc = "validate"
  /\ IF Validate(config) # ""
     THEN Abort(Err("ConfigInvalid", <<Validate(config)>>, 0), "validate")
     ELSE Continue("resolve")
  /\ UNCHANGED <<fs, history, configFile, keep_checkout, run, config,
                 target_path, idx, tool_result, procs, reads, writes, cleanup,
                 markerAtStart, historyAtStart, prevExit>>

\* determine_target_path; std::env::current_dir() may fail.
ResolveTarget ==
  /\ pc = "resolve"
  /\ \E cwd_ok \in BOOLEAN :
       IF cwd_ok
       THEN /\ target_path' = DetermineTargetPath(config.clean, run)
            /\ Continue("checkout")
       ELSE /\ Abort(Err("Io", <<"current_dir">>, 0), "resolve")
            /\ UNCHANGED target_path
  /\ UNCHANGED <<fs, history, configFile, keep_checkout, run, config, idx,
                 tool_result, procs, reads, writes, cleanup, markerAtStart,
                 historyAtStart, prevExit>>

\* The clean / marker / merge branch of checkout_repository.
CheckoutBranch ==
  /\ pc = "checkout"
  /\ Continue(CheckoutAction(config.clean, MarkerPresent(fs, target_path),
                             config.merge))
  /\ UNCHANGED <<fs, history, configFile, keep_checkout, run, config,
                 target_path, idx, tool_result, procs, reads, writes, cleanup,
                 markerAtStart, historyAtStart, prevExit>>

\* clone_repository
Clone ==
  /\ pc = "clone"
  /\ \E o \in Outcomes :
       /\ Success(o) => CanCloneInto(fs, target_path)
       /\ procs' = Append(procs,
            Proc("git", "clone", <<config.branch, config.repository>>,
                 target_path, o))
       /\ IF ~o.started
          THEN /\ Abort(Err("Io", <<"git">>, 0), "clone")
               /\ UNCHANGED <<fs, history>>
          ELSE IF ~Success(o)
          THEN /\ Abort(Err("CheckoutFailed", <<"clone">>, CodeOr1(o)), "clone")
               /\ UNCHANGED <<fs, history>>
          ELSE /\ fs' = CheckoutAt(target_path) @@ (target_path :> DirNode) @@ fs
               /\ history' = (target_path :> 1) @@ history
               /\ Continue(IF UpdateAfterClone(config.clean, config.merge)
                           THEN "status" ELSE "copy")
  /\ UNCHANGED <<configFile, keep_checkout, run, config, target_path, idx,
                 tool_result, reads, writes, cleanup, markerAtStart,
                 historyAtStart, prevExit>>

\* update_repository, `git status --porcelain`
Status ==
  /\ pc = "status"
  /\ \E o \in Outcomes :
       /\ procs' = Append(procs,
            Proc("git", "status", <<"--porcelain">>, target_path, o))
       /\ IF ~o.started
          THEN Abort(Err("Io", <<"git">>, 0), "status")
          ELSE IF StatusAborts(StatusOutput(o, Dirty(fs, target_path)))
          THEN Abort(Err("DirtyRepository", << >>, 0), "status")
          ELSE Continue("fetch")
  /\ UNCHANGED <<fs, history, configFile, keep_checkout, run, config,
                 target_path, idx, tool_result, reads, writes, cleanup,
                 markerAtStart, historyAtStart, prevExit>>

\* update_repository, `git fetch --progress origin <branch>`
Fetch ==
  /\ pc = "fetch"
  /\ \E o \in Outcomes :
       /\ procs' = Append(procs,
            Proc("git", "fetch", <<"origin", config.branch>>, target_path,
                 o))
       /\ IF ~o.started
          THEN Abort(Err("Io", <<"git">>, 0), "fetch")
          ELSE IF ~Success(o)
          THEN Abort(Err("CheckoutFailed", <<"fetch">>, CodeOr1(o)), "fetch")
          ELSE Continue("merge")
  /\ UNCHANGED <<fs, history, configFile, keep_checkout, run, config,
                 target_path, idx, tool_result, reads, writes, cleanup,
                 markerAtStart, historyAtStart, prevExit>>

\* update_repository, `git merge origin/<branch>`: on success the branch
\* is as it was or has advanced.
Merge ==
  /\ pc = "merge"
  /\ \E o \in Outcomes :
       /\ procs' = Append(procs,
            Proc("git", "merge", <<"origin", config.branch>>, target_path,
                 o))
       /\ IF ~o.started
          THEN Abort(Err("Io", <<"git">>, 0), "merge") /\ UNCHANGED history
          ELSE IF ~Success(o)
          THEN /\ Abort(Err("CheckoutFailed", <<"merge">>, CodeOr1(o)), "merge")
               /\ UNCHANGED history
          ELSE /\ \E advanced \in {0, 1} :
                    history' = [history EXCEPT ![target_path] = @ + advanced]
               /\ Continue("copy")
  /\ UNCHANGED <<fs, configFile, keep_checkout, run, config, target_path, idx,
                 tool_result, reads, writes, cleanup, markerAtStart,
                 historyAtStart, prevExit>>

\* Mutant: a resource that cannot be copied is skipped and the loop goes on.
CopyResourceSkipsFailures ==
  /\ pc = "copy"
  /\ idx <= Len(config.resources)
  /\ LET r == CopySingleResource(fs, ConfigDir, target_path, config.resources[idx])
     IN /\ fs' = r.fs
        /\ reads' = reads \cup r.reads
        /\ writes' = writes \cup r.writes
        /\ Continue("copy") /\ idx' = idx + 1
  /\ UNCHANGED <<history, configFile, keep_checkout, run, config, target_path,
                 tool_result, procs, cleanup, markerAtStart, historyAtStart, prevExit>>

\* One iteration of the loop of copy_resources.
CopyResource ==
  /\ pc = "copy"
  /\ idx <= Len(config.resources)
  /\ LET r == CopySingleResource(fs, ConfigDir, target_path, config.resources[idx])
     IN /\ fs' = r.fs
        /\ reads' = reads \cup r.reads
        /\ writes' = writes \cup r.writes
        /\ IF r.status = "ok"
           THEN Continue("copy") /\ idx' = idx + 1
           ELSE IF r.status = "traversal"
           THEN Abort(Err("PathTraversal", r.path, 0), "copy") /\ UNCHANGED idx
           ELSE Abort(Err("Io", r.path, 0), "copy") /\ UNCHANGED idx
  /\ UNCHANGED <<history, configFile, keep_checkout, run, config, target_path,
                 tool_result, procs, cleanup, markerAtStart, historyAtStart, prevExit>>

\* copy_resources and checkout_repository return Ok.
CopyDone ==
  /\ pc = "copy"
  /\ idx > Len(config.resources)
  /\ Continue("tool")
  /\ UNCHANGED <<fs, history, configFile, keep_checkout, run, config,
                 target_path, idx, tool_result, procs, reads, writes, cleanup,
                 markerAtStart, historyAtStart, prevExit>>

\* Mutant: a nonzero exit code is returned at once, as the other errors are.
ToolExitedShortCircuit(o) ==
  IF CodeOr1(o) # 0
  THEN /\ Abort(Err("ToolFailed", DisplayTool(config.tool), CodeOr1(o)), "tool")
       /\ UNCHANGED tool_result
  ELSE /\ tool_result' = NoError
       /\ Continue("cleanup")

\* `let tool_result = if exit_code != 0 { Err(..) } else { Ok(()) }`: the
\* failure is kept, the invocation goes on to the cleanup.
ToolExited(o) ==
  /\ tool_result' =
       IF CodeOr1(o) # 0
       THEN Err("ToolFailed", DisplayTool(config.tool), CodeOr1(o))
       ELSE NoError
  /\ Continue("cleanup")

\* Mutant: only the bare string form is recognised as empty.
SpawnsToolUnlessBareEmpty(tool) == tool.variant = "Full" \/ tool.command # ""

\* Whether the tool step starts a subprocess: `if let Some(command) =
\* config.release.tool.command()` in run_deployment, and the
\* `tool_name.is_empty()` return of execute_tool.
SpawnsTool(tool) == ToolCommand(tool).some /\ ToolCommand(tool).v # ""

\* The tool step of run_deployment, with execute_tool.
ExecuteTool ==
  /\ pc = "tool"
  /\ LET command == ToolCommand(config.tool)
     IN IF ~SpawnsTool(config.tool)
        THEN /\ tool_result' = NoError
             /\ Continue("cleanup")
             /\ UNCHANGED procs
        ELSE \E o \in Outcomes :
               /\ procs' = Append(procs,
                    Proc(command.v, "tool", ToolArguments(config.tool),
                         target_path, o))
               /\ IF ~o.started
                  THEN /\ Abort(Err("Io", <<command.v>>, 0), "tool")
                       /\ UNCHANGED tool_result
                  ELSE ToolExited(o)
  /\ UNCHANGED <<fs, history, configFile, keep_checkout, run, config,
                 target_path, idx, reads, writes, cleanup, markerAtStart,
                 historyAtStart, prevExit>>

\* The cleanup step of run_deployment, its return of tool_result, and main.
Cleanup ==
  /\ pc = "cleanup"
  /\ \E remove_ok \in BOOLEAN :
       /\ remove_ok => target_path \in DOMAIN fs
       /\ IF CleanupDeletes(config.clean, keep_checkout)
          THEN IF remove_ok
               THEN /\ fs' = RemoveTree(fs, target_path)
                    /\ history' = [p \in {q \in DOMAIN history :
                                            ~IsPrefix(target_path, q)} |-> history[p]]
                    /\ cleanup' = "removed"
               ELSE /\ cleanup' = "warned"
                    /\ UNCHANGED <<fs, history>>
          ELSE /\ cleanup' = "kept"
               /\ UNCHANGED <<fs, history>>
       /\ LET ok == FinalResultOk(tool_result.kind = "none", remove_ok)
          IN /\ error' = IF ok THEN NoError
                         ELSE IF tool_result.kind # "none" THEN tool_result
                         ELSE Err("CleanupFailed", target_path, 0)
             /\ exit_code' = ProcessExitCode(ok)
       /\ pc' = "done"
       /\ endedAt' = "cleanup"
  /\ UNCHANGED <<configFile, keep_checkout, run, config, target_path, idx,
                 tool_result, procs, reads, writes, markerAtStart,
                 historyAtStart, prevExit>>

\* The operator invokes the program again, with the same command line.
StartNextRun ==
  /\ pc = "done"
  /\ run < MaxRuns
  /\ run' = run + 1
  /\ pc' = "load"
  /\ config' = DefaultConfig
  /\ target_path' = Root
  /\ idx' = 1
  /\ tool_result' = Pending
  /\ error' = NoError
  /\ exit_code' = -1
  /\ procs' = << >>
  /\ reads' = {}
  /\ writes' = {}
  /\ cleanup' = "none"
  /\ endedAt' = ""
  /\ markerAtStart' = MarkerPresent(fs, Cwd)
  /\ historyAtStart' = history
  /\ prevExit' = exit_code
  /\ UNCHANGED <<fs, history, configFile, keep_checkout>>

Next ==
  \/ LoadConfig
  \/ ValidateConfig
  \/ ResolveTarget
  \/ CheckoutBranch
  \/ Clone
  \/ Status
  \/ Fetch
  \/ Merge
  \/ CopyResource
  \/ CopyDone
  \/ ExecuteTool
  \/ Cleanup
  \/ StartNextRun

Spec == Init /\ [][Next]_vars


\* ------------------------------------------------------------------ claims
\* Where a path leads when ".." is taken lexically.
RECURSIVE LexNormalize(_, _)
LexNormalize(done, rest) ==
  IF rest = << >> THEN done
  ELSE IF Head(rest) = ".."
       THEN LexNormalize(IF done = << >> THEN done ELSE Front(done), Tail(rest))
       ELSE LexNormalize(done \o <<Head(rest)>>, Tail(rest))

HasTraversal(raw) ==
  \E i \in DOMAIN raw : raw[i] = ".." \/ (i = 1 /\ raw[i] = "/")

PointsOutside(path, base) == ~IsPrefix(base, LexNormalize(<< >>, path))

DestName(resource) ==
  IF resource.copy_path.some THEN resource.copy_path.v ELSE resource.file

\* The resource's `file` or `copy` holds traversal sequences or an absolute
\* path and leads out of its sandbox.
ResourceEscapes(resource, target) ==
  \/ /\ HasTraversal(resource.file)
     /\ PointsOutside(SourcePath(ConfigDir, resource), ResourcesDir)
  \/ /\ HasTraversal(DestName(resource))
     /\ PointsOutside(DestPath(target, resource), target)

AtResource == pc = "copy" /\ idx <= Len(config.resources)

\* C1: copying a resource whose `file` or `copy` leads out of its sandbox by
\* traversal sequences or an absolute path fails with the path-traversal
\* error, and the step creates and modifies nothing on the filesystem.
C1_TraversalRejected ==
  [][(AtResource /\ ResourceEscapes(config.resources[idx], target_path))
       => (error'.kind = "PathTraversal" /\ fs' = fs)]_vars

\* C2: every file the copier reads lies inside config_dir/resources and every
\* file or directory it writes lies inside the working directory, symbolic
\* links resolved.
C2_CopierStaysInSandboxes ==
  /\ \A p \in reads : IsPrefix(ResourcesDir, p)
  /\ \A p \in writes : IsPrefix(target_path, p)

\* C3: every invocation whose checkout succeeded attempts the cleanup before
\* it ends, however the tool step went (exit zero, exit nonzero, or the tool
\* could not be started).  The cleanup acts only in clean mode without
\* keep-checkout, so: in such an invocation that got to the tool step, the
\* deletion of the working directory has been attempted when it ends.
C3_CleanupAlwaysAttempted ==
  (pc = "done" /\ endedAt \in {"tool", "cleanup"} /\ config.clean /\ ~keep_checkout)
    => cleanup \in {"removed", "warned"}


ProcsOf(op) == {i \in DOMAIN procs : procs[i].op = op}
ExitedZero(o) == o.started /\ o.coded /\ o.code = 0
ToolExitedNonzero ==
  \E i \in ProcsOf("tool") :
    procs[i].o.started /\ procs[i].o.coded /\ procs[i].o.code # 0

\* C4: when the tool exits with a nonzero code the invocation goes on to the
\* cleanup; in clean mode without keep-checkout the working directory's
\* deletion is carried out first (the directory is gone unless the deletion
\* itself failed), and only then the invocation ends, as a failure whose
\* error carries the tool's command, arguments and exit code.
C4_ToolFailureDeferredPastCleanup ==
  ToolExitedNonzero =>
    /\ exit_code # -1 =>
         /\ endedAt = "cleanup"
         /\ cleanup # "none"
         /\ exit_code = 1
         /\ \E i \in ProcsOf("tool") :
              error = [kind |-> "ToolFailed",
                       detail |-> <<procs[i].prog>> \o procs[i].args,
                       code |-> procs[i].o.code]
    /\ (exit_code # -1 /\ config.clean /\ ~keep_checkout) =>
         /\ cleanup \in {"removed", "warned"}
         /\ cleanup = "removed" => \A p \in DOMAIN fs : ~IsPrefix(target_path, p)

C4_Witness ==
  /\ pc = "done"
  /\ ToolExitedNonzero
  /\ config.tool = FullTool("make", <<"deploy">>)
  /\ error.code = 2
  /\ cleanup = "removed"

\* C5: the cleanup deletes the working directory recursively exactly when
\* clean is set and keep-checkout is not; with clean unset or keep-checkout
\* set nothing is ever deleted.
C5_DeletesIffCleanAndNotKeep ==
  [][/\ (pc = "cleanup" /\ pc' = "done") =>
          IF config.clean /\ ~keep_checkout
          THEN /\ cleanup' \in {"removed", "warned"}
               /\ cleanup' = "removed" =>
                    \A p \in DOMAIN fs' : ~IsPrefix(target_path, p)
          ELSE cleanup' = "kept" /\ fs' = fs
     /\ (\E p \in DOMAIN fs : p \notin DOMAIN fs') =>
          (config.clean /\ ~keep_checkout /\ pc = "cleanup")]_vars

C5_Witness ==
  /\ pc = "done"
  /\ cleanup = "removed"
  /\ target_path \notin DOMAIN fs
  /\ config.clean /\ ~keep_checkout

ToolDidNotSucceed ==
  \E i \in ProcsOf("tool") : procs[i].o.started /\ ~ExitedZero(procs[i].o)

\* C6: a failed deletion in the cleanup does not change the outcome: the
\* invocation's result is the recorded tool result, a failure if the tool
\* did not exit with zero and success otherwise, deletion failed or not.
C6_RemoveFailureNonFatal ==
  (pc = "done" /\ endedAt = "cleanup") =>
    /\ error = tool_result
    /\ (tool_result = NoError) = ~ToolDidNotSucceed
    /\ exit_code = IF ToolDidNotSucceed THEN 1 ELSE 0

C6_Witness ==
  /\ pc = "done"
  /\ cleanup = "warned"
  /\ target_path \in DOMAIN fs
  /\ exit_code = 0

PastCheckoutBranch ==
  \/ pc \in {"status", "fetch", "merge", "copy", "tool", "cleanup"}
  \/ pc = "done" /\ endedAt \in {"clone", "status", "fetch", "merge", "copy",
                                 "tool", "cleanup"}

\* C7: the checkout clones exactly when clean is set or the current directory
\* holds no .git entry: into the uuid-named child of the current directory
\* in clean mode, into the current directory otherwise; with clean unset and
\* a .git entry present it does not clone and uses the current directory.
\* No invocation runs more than one clone.
C7_CheckoutTable ==
  /\ Cardinality(ProcsOf("clone")) <= 1
  /\ PastCheckoutBranch =>
       /\ Cardinality(ProcsOf("clone")) =
            IF config.clean \/ ~markerAtStart THEN 1 ELSE 0
       /\ \A i \in ProcsOf("clone") : procs[i].dir = target_path
       /\ target_path = IF config.clean THEN Cwd \o <<UuidNames[run]>> ELSE Cwd

C7_Witness ==
  /\ pc = "copy"
  /\ ~config.clean /\ ~markerAtStart
  /\ \E i \in ProcsOf("clone") : procs[i].dir = Cwd /\ ExitedZero(procs[i].o)
  /\ MarkerPresent(fs, Cwd)

CloneSucceeded == \E i \in ProcsOf("clone") : ExitedZero(procs[i].o)

PastCheckoutStage ==
  \/ pc \in {"fetch", "merge", "copy", "tool", "cleanup"}
  \/ pc = "done" /\ endedAt \in {"clone", "status", "fetch", "merge", "copy",
                                 "tool", "cleanup"}

\* C8: an update (status, then fetch, then merge) is run exactly when merge is
\* set and either clean is set and the clone succeeded, or clean is unset and
\* the .git entry was present; never in another case, never twice.
C8_UpdateCases ==
  /\ \A op \in {"status", "fetch", "merge"} : Cardinality(ProcsOf(op)) <= 1
  /\ (ProcsOf("fetch") # {} \/ ProcsOf("merge") # {}) => ProcsOf("status") # {}
  /\ PastCheckoutStage =>
       Cardinality(ProcsOf("status")) =
         IF config.merge /\ ( \/ config.clean /\ CloneSucceeded
                              \/ ~config.clean /\ markerAtStart )
         THEN 1 ELSE 0

C8_Witness ==
  /\ pc = "tool"
  /\ ~config.clean /\ ~markerAtStart /\ config.merge
  /\ CloneSucceeded
  /\ ProcsOf("status") = {}

\* C9: an update whose status query reports an uncommitted change fails with
\* the dirty-repository error, and that invocation runs neither fetch nor
\* merge.
C9_DirtyAbortsBeforeFetch ==
  /\ [](error.kind = "DirtyRepository" =>
          (ProcsOf("fetch") = {} /\ ProcsOf("merge") = {}))
  /\ [][(/\ pc = "status"
         /\ Dirty(fs, target_path)
         /\ Len(procs') > Len(procs)
         /\ ExitedZero(procs'[Len(procs')].o))
          => (pc' = "done" /\ error'.kind = "DirtyRepository" /\ exit_code' = 1)]_vars

C9_Witness ==
  /\ pc = "done"
  /\ error.kind = "DirtyRepository"
  /\ \E i \in ProcsOf("status") : procs[i].o.started

\* C10: with clean unset, merge unset and a .git entry in the working
\* directory, the invocation runs no git subprocess (clone, status, fetch,
\* merge), and the repository's history stays as it was.
C10_ReuseRunsNoGit ==
  (/\ configFile.state = "ok"
   /\ ~configFile.cfg.clean
   /\ ~configFile.cfg.merge
   /\ markerAtStart)
    => /\ \A i \in DOMAIN procs :
            procs[i].prog # "git" /\ procs[i].op \notin {"clone", "status", "fetch", "merge"}
       /\ history = historyAtStart

C10_Witness ==
  /\ pc = "done" /\ endedAt = "cleanup"
  /\ ~config.clean /\ ~config.merge /\ markerAtStart
  /\ writes # {}
  /\ ProcsOf("tool") # {}

\* C11: a tool whose command is empty, as a bare string or as an object with
\* arguments, behaves as no tool: the tool step starts no subprocess, reports
\* success, and the invocation goes on to the cleanup.
C11_EmptyCommandIsNoTool ==
  /\ [](config.tool.command = "" =>
          /\ ProcsOf("tool") = {}
          /\ (pc = "cleanup" \/ (pc = "done" /\ endedAt \in {"tool", "cleanup"})) =>
               (tool_result = NoError /\ endedAt \in {"", "cleanup"}))
  /\ [][(pc = "tool" /\ config.tool.command = "")
          => (pc' = "cleanup" /\ tool_result' = NoError /\ procs' = procs)]_vars

C11_Witness ==
  /\ pc = "done" /\ endedAt = "cleanup"
  /\ config.tool = FullTool("", <<"deploy">>)
  /\ procs = << >>
  /\ writes # {}
  /\ exit_code = 0

\* A git subprocess of the checkout could not be started or did not exit with
\* zero (clone, fetch, merge), or the invocation ended in the checkout or in
\* the copy of the resources.
CheckoutOrCopyFailed ==
  \/ \E i \in DOMAIN procs :
       /\ procs[i].op \in {"clone", "fetch", "merge"}
       /\ ~ExitedZero(procs[i].o)
  \/ \E i \in ProcsOf("status") : ~procs[i].o.started
  \/ (pc = "done" /\ endedAt \in {"resolve", "clone", "status", "fetch",
                                  "merge", "copy"})

Copied(f, w, resource) ==
  LET src == Canonicalize(f, SourcePath(ConfigDir, resource))
      dst == Canonicalize(f, DestPath(target_path, resource))
  IN IF src.ok /\ dst.ok
     THEN dst.p \in w /\ f[dst.p].k = "file" /\ f[dst.p] = f[src.p]
     ELSE FALSE

\* C13: the resources are copied in list order, one per step, and the copy
\* stops at the first resource that fails: the invocation ends there with an
\* error, every resource before it has been copied and is still on disk, and
\* no resource after it has been written.
C13_CopyStopsAtFirstFailure ==
  /\ []((pc = "done" /\ endedAt = "copy") =>
          /\ idx \in DOMAIN config.resources
          /\ error.kind \in {"PathTraversal", "Io"}
          /\ ~Copied(fs, writes, config.resources[idx])
          /\ \A j \in 1 .. idx - 1 : Copied(fs, writes, config.resources[j])
          /\ \A j \in idx + 1 .. Len(config.resources) :
               /\ ~Copied(fs, writes, config.resources[j])
               /\ Join(target_path, DestName(config.resources[j])) \notin writes)
  /\ [][AtResource =>
          IF Copied(fs', writes', config.resources[idx])
          THEN pc' = "copy" /\ idx' = idx + 1
          ELSE pc' = "done" /\ idx' = idx /\ exit_code' = 1]_vars

C13_Witness ==
  /\ pc = "done" /\ endedAt = "copy"
  /\ config.resources = <<R_plain, R_src_missing>>
  /\ idx = 2
  /\ fs[target_path \o <<"a.txt">>] = FileNode("A")

\* The resource's source is a regular file of the resources directory and its
\* destination is a plain relative path below the working directory: no
\* "..", not absolute, no symbolic link on the way, not a directory.
PlainResource(f, resource) ==
  LET src == Canonicalize(f, SourcePath(ConfigDir, resource))
      dest == DestPath(target_path, resource)
  IN /\ ~HasTraversal(resource.file)
     /\ ~HasTraversal(DestName(resource))
     /\ IF src.ok THEN f[src.p].k = "file" /\ IsPrefix(ResourcesDir, src.p)
        ELSE FALSE
     /\ \A n \in 1 .. Len(dest) :
          LET q == SubSeq(dest, 1, n)
          IN IF q \in DOMAIN f
             THEN f[q].k # "link" /\ (n = Len(dest) => f[q].k = "file")
             ELSE TRUE

\* C14: a resource whose source exists and whose destination lies inside the
\* working directory is copied even when the destination's parent directories
\* do not exist yet: they are created, and the file is written at
\* <working directory>/<copy or file>.
C14_MissingParentsCreated ==
  [][(AtResource /\ PlainResource(fs, config.resources[idx])) =>
       LET dest == DestPath(target_path, config.resources[idx])
       IN /\ pc' = "copy" /\ idx' = idx + 1
          /\ dest \in DOMAIN fs'
          /\ Parent(dest) \in DOMAIN fs'
          /\ fs'[dest] = fs[SourcePath(ConfigDir, config.resources[idx])]]_vars

\* The same copy when the destination's parent directory exists: it succeeds.
CopyIntoExistingParent ==
  [][(AtResource /\ PlainResource(fs, config.resources[idx])
        /\ Parent(DestPath(target_path, config.resources[idx])) \in DOMAIN fs) =>
       LET dest == DestPath(target_path, config.resources[idx])
       IN /\ pc' = "copy" /\ idx' = idx + 1
          /\ dest \in DOMAIN fs'
          /\ fs'[dest] = fs[SourcePath(ConfigDir, config.resources[idx])]]_vars

\* The invocation ended after it had resolved its working directory.
EndedWithWorkingDirectory ==
  pc = "done" /\ endedAt \notin {"load", "validate", "resolve"}

\* C15 as stated: a working directory is destroyed only by the last step of
\* the pipeline, and a working directory that still exists when the
\* invocation ends belongs to a non-clean, no-merge invocation.
C15_OnlyReuseModeOutlives ==
  /\ [][(target_path \in DOMAIN fs /\ target_path \notin DOMAIN fs')
          => (pc = "cleanup" /\ pc' = "done")]_vars
  /\ []((EndedWithWorkingDirectory /\ target_path \in DOMAIN fs)
          => (~config.clean /\ ~config.merge))

\* C15, amended: a path is destroyed only by the cleanup, the last step of
\* the pipeline, in clean mode without keep-checkout. When the invocation
\* ends, a non-clean invocation's working directory (the current directory)
\* still exists, merge set or not; a clean invocation's cloned directory is
\* gone exactly when that deletion was carried out, and still exists with
\* keep-checkout, after a failed deletion, and when the invocation ended
\* before the cleanup.
C15_OutlivesUnlessRemoved ==
  /\ [][(\E p \in DOMAIN fs : p \notin DOMAIN fs')
          => /\ pc = "cleanup" /\ pc' = "done"
             /\ config.clean /\ ~keep_checkout
             /\ cleanup' = "removed"
             /\ target_path \notin DOMAIN fs']_vars
  /\ [](EndedWithWorkingDirectory =>
          /\ ~config.clean => (target_path = Cwd /\ Cwd \in DOMAIN fs)
          /\ (config.clean /\ CloneSucceeded) =>
               (target_path \notin DOMAIN fs <=> cleanup = "removed")
          /\ cleanup = "removed" =>
               (config.clean /\ ~keep_checkout /\ endedAt = "cleanup"))

C15_Witness ==
  /\ pc = "done" /\ endedAt = "cleanup"
  /\ ~config.clean /\ config.merge
  /\ ProcsOf("merge") # {}
  /\ cleanup = "kept"
  /\ target_path \in DOMAIN fs

\* Every stage of the invocation went through without an error: the
\* configuration was read and is valid, no git subprocess failed to start
\* and clone, fetch and merge exited with zero, every resource was copied,
\* and the tool, if one was started, exited with zero.
AllStagesSucceeded ==
  /\ configFile.state = "ok"
  /\ Validate(configFile.cfg) = ""
  /\ endedAt = "cleanup"
  /\ \A i \in DOMAIN procs :
       /\ procs[i].o.started
       /\ procs[i].op \in {"clone", "fetch", "merge", "tool"} =>
            ExitedZero(procs[i].o)
  /\ idx = Len(config.resources) + 1

SecondReuseRun ==
  /\ run > 1
  /\ prevExit = 0
  /\ pc # "load"
  /\ ~config.clean /\ ~config.merge
  /\ markerAtStart

\* C17: when the same configuration with clean and merge unset is run twice
\* in a row on the same checkout, the second invocation starts no clone and
\* no fetch, and copies every resource again, leaving in each destination
\* the current bytes of its source.
C17_SecondReuseRunCopiesAgain ==
  /\ [](SecondReuseRun =>
          /\ ProcsOf("clone") = {} /\ ProcsOf("fetch") = {}
          /\ pc = "done" => endedAt \in {"resolve", "tool", "cleanup"}
          /\ (pc \in {"tool", "cleanup"} \/ (pc = "done" /\ endedAt # "resolve")) =>
               \A j \in DOMAIN config.resources :
                 Copied(fs, writes, config.resources[j]))
  /\ [][(SecondReuseRun /\ AtResource)
          => (pc' = "copy" /\ idx' = idx + 1
              /\ Copied(fs', writes', config.resources[idx]))]_vars

\* No resource's destination is the dangling symbolic link of the checkout.
NoLinkResource ==
  \A j \in DOMAIN config.resources : config.resources[j] # R_dlnk

\* C17's property for resource lists without such a link: it holds.
SecondReuseRunCopiesAgainNoLink ==
  /\ []((SecondReuseRun /\ NoLinkResource) =>
          /\ ProcsOf("clone") = {} /\ ProcsOf("fetch") = {}
          /\ pc = "done" => endedAt \in {"resolve", "tool", "cleanup"}
          /\ (pc \in {"tool", "cleanup"} \/ (pc = "done" /\ endedAt # "resolve")) =>
               \A j \in DOMAIN config.resources :
                 Copied(fs, writes, config.resources[j]))
  /\ [][(SecondReuseRun /\ NoLinkResource /\ AtResource)
          => (pc' = "copy" /\ idx' = idx + 1
              /\ Copied(fs', writes', config.resources[idx]))]_vars

\* The i-th subprocess is a git subprocess that could not be started, was
\* killed, or exited with a nonzero code.
GitFailure(i) == procs[i].prog = "git" /\ ~ExitedZero(procs[i].o)

\* status, fetch and merge are started in this order, each at most once.
UpdateInOrder ==
  /\ \A op \in {"status", "fetch", "merge"} : Cardinality(ProcsOf(op)) <= 1
  /\ \A i \in ProcsOf("fetch") : i > 1 /\ procs[i - 1].op = "status"
  /\ \A i \in ProcsOf("merge") : i > 1 /\ procs[i - 1].op = "fetch"

\* C18: within an update git status, fetch and merge run in this order, each
\* at most once; a nonzero exit of clone, fetch or merge ends the invocation
\* with a checkout error (after fetch, without a merge); and after the
\* failure of any git subprocess no further subprocess, git or tool, is
\* started, and none is started again.
C18_GitFailureIsTerminal ==
  /\ UpdateInOrder
  /\ \A i \in DOMAIN procs :
       GitFailure(i) =>
         /\ i = Len(procs)
         /\ pc = "done" /\ endedAt = procs[i].op /\ exit_code = 1
         /\ (procs[i].o.started /\ procs[i].op \in {"clone", "fetch", "merge"}) =>
              (error.kind = "CheckoutFailed" /\ error.detail = <<procs[i].op>>)

\* C18's property with the exit status of git status left out: it holds.
GitFailureIsTerminalButStatus ==
  /\ UpdateInOrder
  /\ \A i \in DOMAIN procs :
       (GitFailure(i) /\ ~(procs[i].op = "status" /\ procs[i].o.started)) =>
         /\ i = Len(procs)
         /\ pc = "done" /\ endedAt = procs[i].op /\ exit_code = 1
         /\ (procs[i].o.started /\ procs[i].op \in {"clone", "fetch", "merge"}) =>
              (error.kind = "CheckoutFailed" /\ error.detail = <<procs[i].op>>)

\* The position of a stage in the pipeline; the git subprocesses belong to
\* the checkout.
StageRank(stage) ==
  CASE stage = "load" -> 0
    [] stage = "validate" -> 1
    [] stage = "resolve" -> 2
    [] stage \in {"checkout", "clone", "status", "fetch", "merge"} -> 3
    [] stage = "copy" -> 4
    [] stage = "tool" -> 5
    [] stage = "cleanup" -> 6
    [] stage = "done" -> 7

\* Within one invocation the stages only move forward, the working directory
\* is resolved once, the tool is started at most once, the cleanup runs once.
StagesInOrder ==
  [][run' = run =>
       /\ StageRank(pc') >= StageRank(pc)
       /\ pc \in {"resolve", "tool", "cleanup"} =>
            StageRank(pc') > StageRank(pc)
       /\ target_path' # target_path => pc = "resolve"
       /\ writes' # writes => pc = "copy"
       /\ Len(procs') > Len(procs) =>
            (procs'[Len(procs')].op = "tool" <=> pc = "tool")
       /\ cleanup' # cleanup => pc = "cleanup"]_vars

\* C19: the stages run in the order resolve, checkout, copy, tool, cleanup,
\* each at most once: no resource is copied before every git subprocess of
\* the invocation has succeeded, the tool is started only after every
\* resource has been copied, and the working directory is deleted only
\* after the tool subprocess has ended.
C19_StageOrder ==
  /\ StagesInOrder
  /\ [](/\ Cardinality(ProcsOf("tool")) <= 1
        /\ writes # {} =>
             \A i \in DOMAIN procs : procs[i].prog = "git" => ExitedZero(procs[i].o)
        /\ ProcsOf("tool") # {} => idx = Len(config.resources) + 1
        /\ cleanup # "none" =>
             /\ idx = Len(config.resources) + 1
             /\ tool_result # Pending
             /\ SpawnsTool(config.tool) =>
                  \E i \in ProcsOf("tool") : procs[i].o.started)

\* C19's property with the exit status of git status left out: it holds.
StageOrderButStatus ==
  /\ StagesInOrder
  /\ [](/\ Cardinality(ProcsOf("tool")) <= 1
        /\ writes # {} =>
             \A i \in DOMAIN procs :
               (procs[i].prog = "git" /\ procs[i].op # "status") =>
                 ExitedZero(procs[i].o)
        /\ writes # {} => \A i \in ProcsOf("status") : procs[i].o.started
        /\ ProcsOf("tool") # {} => idx = Len(config.resources) + 1
        /\ cleanup # "none" =>
             /\ idx = Len(config.resources) + 1
             /\ tool_result # Pending
             /\ SpawnsTool(config.tool) =>
                  \E i \in ProcsOf("tool") : procs[i].o.started)

\* C20: the only paths an invocation deletes are the working directory it
\* resolved in clean mode and what lies below it: a direct child of the
\* current directory, named by the identifier generated for this invocation,
\* into which this invocation's clone succeeded. The current directory
\* itself and every path outside that child survive every step, whatever
\* clean, merge, keep-checkout and the outcomes of the stages are.
C20_DeletesOnlyOwnClone ==
  [][/\ Cwd \in DOMAIN fs => Cwd \in DOMAIN fs'
     /\ \A p \in DOMAIN fs :
          p \notin DOMAIN fs' =>
            /\ pc = "cleanup"
            /\ config.clean
            /\ IsPrefix(target_path, p)
            /\ HasParent(target_path) /\ Parent(target_path) = Cwd
            /\ Last(target_path) = UuidNames[run]
            /\ \E i \in ProcsOf("clone") :
                 ExitedZero(procs[i].o) /\ procs[i].dir = target_path]_vars

C20_Witness ==
  /\ pc = "done" /\ cleanup = "removed"
  /\ run = 2
  /\ target_path = Cwd \o <<"u2">>
  /\ target_path \notin DOMAIN fs
  /\ markerAtStart
  /\ GitDir(Cwd) \in DOMAIN fs

\* This invocation follows one that succeeded, both in non-clean mode with
\* merge set, and it finds the checkout in the current directory; the
\* operator's own uncommitted file is not there.
SecondMergeRun ==
  /\ run > 1
  /\ (Cwd \o <<"local.txt">>) \notin DOMAIN fs
  /\ prevExit = 0
  /\ pc # "load"
  /\ ~config.clean /\ config.merge
  /\ markerAtStart

\* C21: in non-clean mode with merge set, an invocation that follows a
\* successful one on the same working directory is not stopped by the
\* uncommitted-changes check: the resources the previous invocation copied
\* there do not make it fail with the dirty-repository error, and once git
\* status has been started the invocation reaches the fetch.
C21_CopiedResourcesDoNotBlock ==
  SecondMergeRun =>
    /\ error.kind # "DirtyRepository"
    /\ (pc = "done" /\ endedAt = "status") =>
         \E i \in ProcsOf("status") : ~procs[i].o.started

\* C21's property for configurations without resources: it holds.
SecondMergeRunWithoutResources ==
  (SecondMergeRun /\ config.resources = << >>) =>
    /\ error.kind # "DirtyRepository"
    /\ (pc = "done" /\ endedAt = "status") =>
         \E i \in ProcsOf("status") : ~procs[i].o.started

\* A second merge run without resources does go through fetch and merge.
SecondMergeRunWithoutResourcesDone ==
  /\ SecondMergeRun /\ config.resources = << >>
  /\ pc = "done" /\ endedAt = "cleanup"
  /\ ProcsOf("merge") # {}

====
